---- MODULE Spec2Model ----
(***************************************************************************)
(* WorkloadClustersMux of the in-memory infrastructure provider: the       *)
(* registry of per-cluster listeners, its port allocator, hot restart and  *)
(* the operations that add API servers and etcd members to a listener.     *)
(*                                                                         *)
(* Every administrative operation takes m.lock for its whole body, so each *)
(* is one atomic action.  Values returned to the caller are recorded in    *)
(* the variable last.                                                      *)
(***************************************************************************)
EXTENDS Integers, Sequences, FiniteSets, TLC

(* ------------------------------------------------------------------ *)
(* Bounds and inputs                                                   *)
(* ------------------------------------------------------------------ *)

\* Largest size of the configured port range [minPort, maxPort].
PortRange == 2

\* Largest number of InMemoryClusters in the list given to HotRestart.
MaxItems == 2

\* const minPort of the package (the field m.minPort is the variable minPort).
constMinPort == 20000

\* m.host, and a host address that differs from it.
host == "127.0.0.1"
otherHost == "10.0.0.9"

\* Workload cluster (resource group) names used by the calls.
ClusterNames == {"A", "B"}
Callers == {"caller-1", "caller-2"}
Conns == {"conn-1", "conn-2"}
MaxStarted == 2
MoreClusterNames == {"A", "B", "C"}

\* The clusters etcd members are added to.
EtcdClusterNames == {"A"}

\* Pod names and certificate authorities used by the calls.
PodNames == {"pod-0"}
AllPodNames == {"pod-0", "pod-1"}
ServerNames == PodNames \cup {""}
CaCerts == {"ca-1"}
AllCaCerts == {"ca-1", "ca-2"}

\* The nil pointer / nil interface value of a certificate or listener field,
\* and of a CA certificate.
Nil == <<>>
NilCa == ""

\* An InMemoryCluster without the resource-group annotation.
NoAnnotation == "<no-annotation>"

\* The InMemoryClusters HotRestart can be given.  The loop looks at the host
\* first: of the clusters whose endpoint is not set yet (empty host) and of
\* those on another host one stands for all; a cluster on this host has any
\* port of ListPorts and any resource group, or no annotation.
ListPorts == constMinPort .. (constMinPort + PortRange - 1)

InMemoryClusters ==
    [resourceGroup : {NoAnnotation}, host : {""}, port : {0}]
    \cup
    [resourceGroup : {"A"}, host : {otherHost}, port : {constMinPort}]
    \cup
    [resourceGroup : ClusterNames \cup {NoAnnotation},
     host : {host}, port : ListPorts]

InMemoryClusterLists ==
    UNION {[1 .. n -> InMemoryClusters] : n \in 0 .. MaxItems}

(* ------------------------------------------------------------------ *)
(* State                                                               *)
(* ------------------------------------------------------------------ *)

VARIABLES
    minPort,                    \* m.minPort
    maxPort,                    \* m.maxPort
    portIndex,                  \* m.portIndex
    workloadClusterListeners,   \* m.workloadClusterListeners
    workloadClusterNameByHost,  \* m.workloadClusterNameByHost
    debugServer,                \* m.debugServer
    muxServer,                  \* m.muxServer
    last,                       \* the last call, its arguments and what it returned
    lock,                       \* m.lock: the task that holds it for writing, or ""
    callers,                    \* the tasks that call AddAPIServer, and where they are
    shutdown,                   \* the task that calls Shutdown, and where it is
    conns,                      \* the connections of muxServer and their handlers
    started                     \* per cluster: net.Listen successes, ServeTLS goroutines

vars == <<minPort, maxPort, portIndex, workloadClusterListeners,
          workloadClusterNameByHost, debugServer, muxServer, last,
          lock, callers, shutdown, conns, started>>

\* The tasks that run next to the administrative calls.
tasks == <<lock, callers, shutdown, conns>>

mux == <<portIndex, workloadClusterListeners, workloadClusterNameByHost>>

\* The two http.Servers of the mux: "serving" until Shutdown is called on
\* them, "shutdown" from then on.
servers == <<debugServer, muxServer>>

\* m[k] = v on a Go map.
MapPut(m, k, v) == [x \in (DOMAIN m) \cup {k} |-> IF x = k THEN v ELSE m[x]]

EmptyMap == [x \in {} |-> x]

\* wcl.HostPort(): the key of the reverse index.
HostPort(wcl) == <<wcl.host, wcl.port>>

\* A call and its results: the operation, its cluster name (or the list
\* given to HotRestart), the error ("" for nil) and the port of the
\* listener the call returned.
Returned(op, wclName, clusters, err, port) ==
    [op |-> op, wclName |-> wclName, podName |-> "", clusters |-> clusters,
     err |-> err, port |-> port, cert |-> <<>>, resolved |-> "",
     request |-> <<>>, handlers |-> <<>>]

\* A call that names a pod of a cluster, and the error it returned.
ReturnedFor(op, wclName, podName, err) ==
    [Returned(op, wclName, <<>>, err, 0) EXCEPT !.podName = podName]

\* A caller that is in no call.
Idle == [at |-> "idle", wclName |-> "", podName |-> "", err |-> ""]

\* A connection that is not open: none was accepted, or it was closed.
NoConn == [at |-> "closed", wclName |-> ""]

\* The counters of a cluster after a call that did or did not get a socket
\* from net.Listen; the goroutine that calls ServeTLS is started right
\* after.  The counters stop at MaxStarted.
Started(counts, wclName, listened) ==
    IF listened
    THEN [counts EXCEPT ![wclName] =
             [listen |-> IF @.listen < MaxStarted THEN @.listen + 1 ELSE @.listen,
              serveTLS |-> IF @.serveTLS < MaxStarted
                           THEN @.serveTLS + 1 ELSE @.serveTLS]]
    ELSE counts

(* ------------------------------------------------------------------ *)
(* NewWorkloadClustersMux                                              *)
(* ------------------------------------------------------------------ *)

Init ==
    /\ minPort = constMinPort
    /\ maxPort \in constMinPort .. (constMinPort + PortRange - 1)
    /\ portIndex = minPort
    /\ workloadClusterListeners = EmptyMap
    /\ workloadClusterNameByHost = EmptyMap
    /\ debugServer = "serving"
    /\ muxServer = "serving"
    /\ last = Returned("NewWorkloadClustersMux", "", <<>>, "", 0)
    /\ lock = ""
    /\ callers = [t \in Callers |-> Idle]
    /\ shutdown = "idle"
    /\ conns = [c \in Conns |-> NoConn]
    /\ started = [n \in MoreClusterNames |-> [listen |-> 0, serveTLS |-> 0]]

(* ------------------------------------------------------------------ *)
(* getFreePortLocked                                                   *)
(* ------------------------------------------------------------------ *)

\* getFreePortLocked without m.portIndex++.
getFreePortLocked_NoAdvance(index, max) ==
    IF index > max
    THEN [port |-> -1, err |-> "no more free ports", portIndex |-> index]
    ELSE [port |-> index, err |-> "", portIndex |-> index]

\* getFreePortLocked without the test against m.maxPort.
getFreePortLocked_NoBoundCheck(index, max) ==
    [port |-> index, err |-> "", portIndex |-> index + 1]

getFreePortLocked(index, max) ==
    IF index > max
    THEN [port |-> -1, err |-> "no more free ports", portIndex |-> index]
    ELSE [port |-> index, err |-> "", portIndex |-> index + 1]

(* ------------------------------------------------------------------ *)
(* initWorkloadClusterListenerWithPortLocked                           *)
(* ------------------------------------------------------------------ *)

NewListener(port) ==
    [host |-> host,
     port |-> port,
     apiServers |-> {},
     etcdMembers |-> {},
     apiServerCaCertificate |-> NilCa,
     apiServerServingCertificate |-> Nil,
     adminCertificate |-> Nil,
     etcdServingCertificates |-> [p \in AllPodNames |-> Nil],
     listener |-> Nil]

initWorkloadClusterListenerWithPortLocked(listeners, byHost, wclName, port) ==
    LET wcl == NewListener(port)
    IN  [wcl |-> wcl,
         listeners |-> MapPut(listeners, wclName, wcl),
         byHost |-> MapPut(byHost, HostPort(wcl), wclName)]

(* ------------------------------------------------------------------ *)
(* InitWorkloadClusterListener                                         *)
(* ------------------------------------------------------------------ *)

\* InitWorkloadClusterListener without the lookup of an existing listener.
InitWorkloadClusterListener_NoLookup(wclName) ==
    LET free == getFreePortLocked(portIndex, maxPort)
    IN  IF free.err # ""
        THEN /\ last' = Returned("InitWorkloadClusterListener", wclName,
                                 <<>>, free.err, 0)
             /\ UNCHANGED <<tasks, started, minPort, maxPort, servers, mux>>
        ELSE LET r == initWorkloadClusterListenerWithPortLocked(
                          workloadClusterListeners,
                          workloadClusterNameByHost, wclName, free.port)
             IN  /\ portIndex' = free.portIndex
                 /\ workloadClusterListeners' = r.listeners
                 /\ workloadClusterNameByHost' = r.byHost
                 /\ last' = Returned("InitWorkloadClusterListener", wclName,
                                     <<>>, "", r.wcl.port)
                 /\ UNCHANGED <<tasks, started, minPort, maxPort, servers>>

InitWorkloadClusterListener(wclName) ==
    IF wclName \in DOMAIN workloadClusterListeners
    THEN /\ last' = Returned("InitWorkloadClusterListener", wclName, <<>>, "",
                             workloadClusterListeners[wclName].port)
         /\ UNCHANGED <<tasks, started, minPort, maxPort, servers, mux>>
    ELSE LET free == getFreePortLocked(portIndex, maxPort)
         IN  IF free.err # ""
             THEN /\ last' = Returned("InitWorkloadClusterListener", wclName,
                                      <<>>, free.err, 0)
                  /\ UNCHANGED <<tasks, started, minPort, maxPort, servers, mux>>
             ELSE LET r == initWorkloadClusterListenerWithPortLocked(
                               workloadClusterListeners,
                               workloadClusterNameByHost, wclName, free.port)
                  IN  /\ portIndex' = free.portIndex
                      /\ workloadClusterListeners' = r.listeners
                      /\ workloadClusterNameByHost' = r.byHost
                      /\ last' = Returned("InitWorkloadClusterListener", wclName,
                                          <<>>, "", r.wcl.port)
                      /\ UNCHANGED <<tasks, started, minPort, maxPort, servers>>

InitListenerCall == \E wclName \in ClusterNames : InitWorkloadClusterListener(wclName)

(* ------------------------------------------------------------------ *)
(* HotRestart                                                          *)
(* ------------------------------------------------------------------ *)

\* The loop over clusters.Items.  st holds the maps being written, the local
\* set ports (the loop tests it and never inserts into it), the local maxPort
\* and the error the loop returned with, if any.
RECURSIVE hotRestartItems(_, _, _)
hotRestartItems(clusters, i, st) ==
    IF i > Len(clusters)
    THEN st
    ELSE LET c == clusters[i]
         IN  IF c.host = ""
             THEN hotRestartItems(clusters, i + 1, st)
             ELSE IF c.host # host
             THEN [st EXCEPT !.err = "host address is changed"]
             ELSE IF c.port \in st.ports
             THEN [st EXCEPT !.err = "two or more clusters using port"]
             ELSE IF c.resourceGroup = NoAnnotation
             THEN [st EXCEPT !.err = "cluster doesn't have the annotation"]
             ELSE LET r == initWorkloadClusterListenerWithPortLocked(
                               st.listeners, st.byHost, c.resourceGroup, c.port)
                  IN  hotRestartItems(clusters, i + 1,
                          [st EXCEPT !.listeners = r.listeners,
                                     !.byHost = r.byHost,
                                     !.maxPort = IF st.maxPort < c.port
                                                 THEN c.port ELSE st.maxPort])

\* HotRestart without the test for already initialized listeners.
HotRestartResult_NoInitializedCheck(clusters, listeners, byHost, index, min) ==
    IF Len(clusters) = 0
    THEN [err |-> "", listeners |-> listeners,
          byHost |-> byHost, portIndex |-> index]
    ELSE LET st == hotRestartItems(clusters, 1,
                       [listeners |-> listeners, byHost |-> byHost,
                        ports |-> {}, maxPort |-> min - 1, err |-> ""])
         IN  [err |-> st.err, listeners |-> st.listeners,
              byHost |-> st.byHost,
              portIndex |-> IF st.err = "" THEN st.maxPort + 1 ELSE index]

\* HotRestart with m.portIndex = maxPort in place of maxPort + 1.
HotRestartResult_CursorAtMax(clusters, listeners, byHost, index, min) ==
    IF Len(clusters) = 0
    THEN [err |-> "", listeners |-> listeners,
          byHost |-> byHost, portIndex |-> index]
    ELSE IF Cardinality(DOMAIN listeners) > 0
    THEN [err |-> "already initialized listeners",
          listeners |-> listeners, byHost |-> byHost, portIndex |-> index]
    ELSE LET st == hotRestartItems(clusters, 1,
                       [listeners |-> listeners, byHost |-> byHost,
                        ports |-> {}, maxPort |-> min - 1, err |-> ""])
         IN  [err |-> st.err, listeners |-> st.listeners,
              byHost |-> st.byHost,
              portIndex |-> IF st.err = "" THEN st.maxPort ELSE index]

\* What HotRestart(clusters) does to the mux and what it returns.
HotRestartResult(clusters, listeners, byHost, index, min) ==
    IF Len(clusters) = 0
    THEN [err |-> "", listeners |-> listeners,
          byHost |-> byHost, portIndex |-> index]
    ELSE IF Cardinality(DOMAIN listeners) > 0
    THEN [err |-> "already initialized listeners",
          listeners |-> listeners, byHost |-> byHost, portIndex |-> index]
    ELSE LET st == hotRestartItems(clusters, 1,
                       [listeners |-> listeners, byHost |-> byHost,
                        ports |-> {}, maxPort |-> min - 1, err |-> ""])
         IN  [err |-> st.err, listeners |-> st.listeners,
              byHost |-> st.byHost,
              portIndex |-> IF st.err = "" THEN st.maxPort + 1 ELSE index]

HotRestart(clusters) ==
    LET r == HotRestartResult(clusters, workloadClusterListeners,
                              workloadClusterNameByHost, portIndex, minPort)
    IN  /\ portIndex' = r.portIndex
        /\ workloadClusterListeners' = r.listeners
        /\ workloadClusterNameByHost' = r.byHost
        /\ last' = Returned("HotRestart", "", clusters, r.err, 0)
        /\ UNCHANGED <<tasks, started, minPort, maxPort, servers>>

\* On a registry that already holds a record HotRestart looks at nothing of
\* the list but its length, so one list of each length stands for all.
HotRestartInputs ==
    IF DOMAIN workloadClusterListeners = {}
    THEN InMemoryClusterLists
    ELSE {[i \in 1 .. n |-> [resourceGroup |-> "A", host |-> host,
                             port |-> constMinPort]] : n \in 0 .. MaxItems}

HotRestartCall == \E clusters \in HotRestartInputs : HotRestart(clusters)

(* ------------------------------------------------------------------ *)
(* AddAPIServer                                                        *)
(* ------------------------------------------------------------------ *)

\* The call of AddAPIServer that fails, if the call reaches it: newCertAndKey
\* or tls.X509KeyPair for the serving certificate, newCertAndKey for the
\* admin certificate, net.Listen, or ServeTLS in the goroutine.  startErr is
\* written by the goroutine and read by AddAPIServer after the sleep with no
\* synchronisation between the two: a failure of ServeTLS is either seen by
\* the read ("serve") or not ("serveUnseen").
APIServerFailures ==
    {"none", "servingCert", "servingKeyPair", "adminCert", "listen", "serve",
     "serveUnseen"}

\* Certificates are named by their profile, subject and issuing CA; caCert
\* stands for the pair caCert, caKey.
APIServerCertificate(wcl, caCert) == <<"apiserver", wcl.host, caCert>>
AdminCertificate(caCert) == <<"admin", "kubernetes-admin", caCert>>
EtcdCertificate(wcl, podName, caCert) == <<"etcd", podName, caCert>>

\* net.Listen on an address a listener of this process is bound to fails; the Shutdown of muxServer closes the listeners it serves.
AddressInUse(listeners, wclName) ==
    \E other \in DOMAIN listeners :
        /\ listeners[other].listener = HostPort(listeners[wclName])
        /\ muxServer = "serving"

\* AddAPIServer returning nil when net.Listen fails.
AddAPIServerResult_ListenErrorDropped(wcl, podName, caCert, fail, inUse) ==
    LET joined == [wcl EXCEPT !.apiServers = @ \cup {podName},
                              !.apiServerCaCertificate = caCert]
        mintServing == joined.apiServerServingCertificate = Nil
        served == IF mintServing
                  THEN [joined EXCEPT !.apiServerServingCertificate =
                                          APIServerCertificate(joined, caCert)]
                  ELSE joined
        mintAdmin == served.adminCertificate = Nil
        admin == IF mintAdmin
                 THEN [served EXCEPT !.adminCertificate = AdminCertificate(caCert)]
                 ELSE served
        bound == [admin EXCEPT !.listener = HostPort(admin)]
    IN  IF mintServing /\ fail = "servingCert"
        THEN [wcl |-> joined, listened |-> FALSE, err |-> "failed to create serving certificate"]
        ELSE IF mintServing /\ fail = "servingKeyPair"
        THEN [wcl |-> joined, listened |-> FALSE, err |-> "failed to create X509KeyPair"]
        ELSE IF mintAdmin /\ fail = "adminCert"
        THEN [wcl |-> served, listened |-> FALSE, err |-> "failed to create admin certificate"]
        ELSE IF admin.listener # Nil
        THEN [wcl |-> admin, listened |-> FALSE, err |-> ""]
        ELSE IF fail = "listen" \/ inUse
        THEN [wcl |-> admin, listened |-> FALSE, err |-> ""]
        ELSE IF fail = "serve"
        THEN [wcl |-> bound, listened |-> TRUE, err |-> "startErr"]
        ELSE [wcl |-> bound, listened |-> TRUE, err |-> ""]

\* AddAPIServer minting the serving certificate on every call.
AddAPIServerResult_AlwaysMints(wcl, podName, caCert, fail, inUse) ==
    LET joined == [wcl EXCEPT !.apiServers = @ \cup {podName},
                              !.apiServerCaCertificate = caCert]
        served == [joined EXCEPT !.apiServerServingCertificate =
                                     APIServerCertificate(joined, caCert)]
        mintAdmin == served.adminCertificate = Nil
        admin == IF mintAdmin
                 THEN [served EXCEPT !.adminCertificate = AdminCertificate(caCert)]
                 ELSE served
        bound == [admin EXCEPT !.listener = HostPort(admin)]
    IN  IF fail = "servingCert"
        THEN [wcl |-> joined, listened |-> FALSE, err |-> "failed to create serving certificate"]
        ELSE IF fail = "servingKeyPair"
        THEN [wcl |-> joined, listened |-> FALSE, err |-> "failed to create X509KeyPair"]
        ELSE IF mintAdmin /\ fail = "adminCert"
        THEN [wcl |-> served, listened |-> FALSE, err |-> "failed to create admin certificate"]
        ELSE IF admin.listener # Nil
        THEN [wcl |-> admin, listened |-> FALSE, err |-> ""]
        ELSE IF fail = "listen" \/ inUse
        THEN [wcl |-> admin, listened |-> FALSE, err |-> "failed to start WorkloadClusterListener"]
        ELSE IF fail = "serve"
        THEN [wcl |-> bound, listened |-> TRUE, err |-> "startErr"]
        ELSE [wcl |-> bound, listened |-> TRUE, err |-> ""]

\* AddAPIServer storing the socket only when ServeTLS did not fail, so
\* that a later call binds and serves again.
AddAPIServerResult_RetryAfterStartErr(wcl, podName, caCert, fail, inUse) ==
    LET joined == [wcl EXCEPT !.apiServers = @ \cup {podName},
                              !.apiServerCaCertificate = caCert]
        mintServing == joined.apiServerServingCertificate = Nil
        served == IF mintServing
                  THEN [joined EXCEPT !.apiServerServingCertificate =
                                          APIServerCertificate(joined, caCert)]
                  ELSE joined
        mintAdmin == served.adminCertificate = Nil
        admin == IF mintAdmin
                 THEN [served EXCEPT !.adminCertificate = AdminCertificate(caCert)]
                 ELSE served
        bound == [admin EXCEPT !.listener = HostPort(admin)]
    IN  IF mintServing /\ fail = "servingCert"
        THEN [wcl |-> joined, listened |-> FALSE,
              err |-> "failed to create serving certificate"]
        ELSE IF mintServing /\ fail = "servingKeyPair"
        THEN [wcl |-> joined, listened |-> FALSE,
              err |-> "failed to create X509KeyPair"]
        ELSE IF mintAdmin /\ fail = "adminCert"
        THEN [wcl |-> served, listened |-> FALSE,
              err |-> "failed to create admin certificate"]
        ELSE IF admin.listener # Nil
        THEN [wcl |-> admin, listened |-> FALSE, err |-> ""]
        ELSE IF fail = "listen" \/ inUse
        THEN [wcl |-> admin, listened |-> FALSE,
              err |-> "failed to start WorkloadClusterListener"]
        ELSE IF fail = "serve"
        THEN [wcl |-> admin, listened |-> TRUE, err |-> "startErr"]
        ELSE [wcl |-> bound, listened |-> TRUE, err |-> ""]

\* The body of AddAPIServer after the lookup of wcl: the record as the call
\* leaves it and the error the call returns.
AddAPIServerResult(wcl, podName, caCert, fail, inUse) ==
    LET joined == [wcl EXCEPT !.apiServers = @ \cup {podName},
                              !.apiServerCaCertificate = caCert]
        mintServing == joined.apiServerServingCertificate = Nil
        served == IF mintServing
                  THEN [joined EXCEPT !.apiServerServingCertificate =
                                          APIServerCertificate(joined, caCert)]
                  ELSE joined
        mintAdmin == served.adminCertificate = Nil
        admin == IF mintAdmin
                 THEN [served EXCEPT !.adminCertificate = AdminCertificate(caCert)]
                 ELSE served
        bound == [admin EXCEPT !.listener = HostPort(admin)]
    IN  IF mintServing /\ fail = "servingCert"
        THEN [wcl |-> joined, listened |-> FALSE, err |-> "failed to create serving certificate"]
        ELSE IF mintServing /\ fail = "servingKeyPair"
        THEN [wcl |-> joined, listened |-> FALSE, err |-> "failed to create X509KeyPair"]
        ELSE IF mintAdmin /\ fail = "adminCert"
        THEN [wcl |-> served, listened |-> FALSE, err |-> "failed to create admin certificate"]
        ELSE IF admin.listener # Nil
        THEN [wcl |-> admin, listened |-> FALSE, err |-> ""]
        ELSE IF fail = "listen" \/ inUse
        THEN [wcl |-> admin, listened |-> FALSE, err |-> "failed to start WorkloadClusterListener"]
        ELSE IF fail = "serve"
        THEN [wcl |-> bound, listened |-> TRUE, err |-> "startErr"]
        ELSE [wcl |-> bound, listened |-> TRUE, err |-> ""]

AddAPIServer(wclName, podName, caCert, fail) ==
    IF wclName \notin DOMAIN workloadClusterListeners
    THEN /\ last' = ReturnedFor("AddAPIServer", wclName, podName,
                             "must be initialized before adding an APIserver")
         /\ UNCHANGED <<tasks, started, minPort, maxPort, servers, mux>>
    ELSE LET r == AddAPIServerResult(workloadClusterListeners[wclName], podName,
                      caCert, fail,
                      AddressInUse(workloadClusterListeners, wclName))
         IN  /\ workloadClusterListeners' =
                    [workloadClusterListeners EXCEPT ![wclName] = r.wcl]
             /\ started' = Started(started, wclName, r.listened)
             /\ last' = ReturnedFor("AddAPIServer", wclName, podName, r.err)
             /\ UNCHANGED <<tasks, minPort, maxPort, servers, portIndex,
                            workloadClusterNameByHost>>

AddAPIServerCall ==
    \E wclName \in ClusterNames, podName \in PodNames, caCert \in CaCerts,
       fail \in APIServerFailures :
        AddAPIServer(wclName, podName, caCert, fail)

(* ------------------------------------------------------------------ *)
(* AddEtcdMember                                                       *)
(* ------------------------------------------------------------------ *)

EtcdMemberFailures == {"none", "etcdCert", "etcdKeyPair"}

AddEtcdMemberResult(wcl, podName, caCert, fail) ==
    LET joined == [wcl EXCEPT !.etcdMembers = @ \cup {podName}]
        mint == joined.etcdServingCertificates[podName] = Nil
    IN  IF mint /\ fail = "etcdCert"
        THEN [wcl |-> joined, err |-> "failed to create serving certificate"]
        ELSE IF mint /\ fail = "etcdKeyPair"
        THEN [wcl |-> joined, err |-> "failed to create X509KeyPair"]
        ELSE IF mint
        THEN [wcl |-> [joined EXCEPT !.etcdServingCertificates[podName] =
                                         EtcdCertificate(joined, podName, caCert)],
              err |-> ""]
        ELSE [wcl |-> joined, err |-> ""]

\* AddEtcdMember creating the listener of a cluster that has none.
AddEtcdMember_CreatesListener(wclName, podName, caCert, fail) ==
    LET made == IF wclName \in DOMAIN workloadClusterListeners
                THEN [listeners |-> workloadClusterListeners,
                      byHost |-> workloadClusterNameByHost]
                ELSE initWorkloadClusterListenerWithPortLocked(
                         workloadClusterListeners, workloadClusterNameByHost,
                         wclName, portIndex)
        r == AddEtcdMemberResult(made.listeners[wclName], podName, caCert, fail)
    IN  /\ workloadClusterListeners' = [made.listeners EXCEPT ![wclName] = r.wcl]
        /\ workloadClusterNameByHost' = made.byHost
        /\ last' = ReturnedFor("AddEtcdMember", wclName, podName, r.err)
        /\ UNCHANGED <<tasks, started, minPort, maxPort, servers, portIndex>>

AddEtcdMember(wclName, podName, caCert, fail) ==
    IF wclName \notin DOMAIN workloadClusterListeners
    THEN /\ last' = ReturnedFor("AddEtcdMember", wclName, podName,
                             "must be initialized before adding an APIserver")
         /\ UNCHANGED <<tasks, started, minPort, maxPort, servers, mux>>
    ELSE LET r == AddEtcdMemberResult(workloadClusterListeners[wclName], podName,
                                      caCert, fail)
         IN  /\ workloadClusterListeners' =
                    [workloadClusterListeners EXCEPT ![wclName] = r.wcl]
             /\ last' = ReturnedFor("AddEtcdMember", wclName, podName, r.err)
             /\ UNCHANGED <<tasks, started, minPort, maxPort, servers, portIndex,
                            workloadClusterNameByHost>>

AddEtcdMemberCall ==
    \E wclName \in EtcdClusterNames, podName \in PodNames, caCert \in CaCerts,
       fail \in EtcdMemberFailures :
        AddEtcdMember(wclName, podName, caCert, fail)

(* ------------------------------------------------------------------ *)
(* mixedHandler                                                        *)
(* ------------------------------------------------------------------ *)

\* "application/grpc", one character per element.
GrpcContentType ==
    <<"a", "p", "p", "l", "i", "c", "a", "t", "i", "o", "n", "/",
      "g", "r", "p", "c">>

\* What r.Header.Get("content-type") returns: "" when the header is absent,
\* else its first value, with the case the client sent.
ContentTypes ==
    { <<>>,
      GrpcContentType,
      GrpcContentType \o <<"+", "p", "r", "o", "t", "o">>,
      SubSeq(GrpcContentType, 1, Len(GrpcContentType) - 1),
      <<"A">> \o Tail(GrpcContentType),
      <<" ">> \o GrpcContentType,
      <<"a", "p", "p", "l", "i", "c", "a", "t", "i", "o", "n", "/",
        "j", "s", "o", "n">> }

\* r.ProtoMajor.
ProtoMajors == {1, 2, 3}

\* strings.HasPrefix(s, prefix).
HasPrefix(s, prefix) ==
    /\ Len(s) >= Len(prefix)
    /\ SubSeq(s, 1, Len(prefix)) = prefix

\* The handler that tests the content type only.
mixedHandler_AnyProto(protoMajor, contentType) ==
    IF HasPrefix(contentType, GrpcContentType)
    THEN <<"etcdHandler">>
    ELSE <<"apiHandler">>

\* The handlers the mixed handler calls ServeHTTP on, in order.
mixedHandler(protoMajor, contentType) ==
    IF protoMajor = 2 /\ HasPrefix(contentType, GrpcContentType)
    THEN <<"etcdHandler">>
    ELSE <<"apiHandler">>

\* A request that the mux server reads from a connection of a bound socket.
ServeHTTP(accepting, protoMajor, contentType) ==
    /\ accepting \in DOMAIN workloadClusterListeners
    /\ workloadClusterListeners[accepting].listener # Nil
    /\ muxServer = "serving"
    /\ last' = [Returned("ServeHTTP", accepting, <<>>, "", 0)
                   EXCEPT !.request = [protoMajor |-> protoMajor,
                                       contentType |-> contentType],
                          !.handlers = mixedHandler(protoMajor, contentType)]
    /\ UNCHANGED <<tasks, started, minPort, maxPort, servers, mux>>

ServeHTTPCall ==
    \E accepting \in ClusterNames, protoMajor \in ProtoMajors,
       contentType \in ContentTypes :
        ServeHTTP(accepting, protoMajor, contentType)

(* ------------------------------------------------------------------ *)
(* getCertificate                                                      *)
(* ------------------------------------------------------------------ *)

\* getCertificate(info) for a connection whose local address is hostPort
\* and whose client hello names serverName: the certificate (Nil for nil),
\* the error and the name the reverse index resolved the address to.
GetCertificateResult(hostPort, serverName, listeners, byHost) ==
    IF hostPort \notin DOMAIN byHost
    THEN [cert |-> Nil, wclName |-> "",
          err |-> "failed to get listener name for workload cluster serving on"]
    ELSE LET wclName == byHost[hostPort]
         IN  IF wclName \notin DOMAIN listeners
             THEN [cert |-> Nil, wclName |-> wclName,
                   err |-> "failed to get listener with name"]
             ELSE LET wcl == listeners[wclName]
                  IN  IF serverName \in wcl.etcdMembers
                      THEN [cert |-> wcl.etcdServingCertificates[serverName],
                            wclName |-> wclName, err |-> ""]
                      ELSE [cert |-> wcl.apiServerServingCertificate,
                            wclName |-> wclName, err |-> ""]

\* A TLS handshake on the socket of cluster accepting, which the mux server
\* serves: the server calls getCertificate with the socket's address.
getCertificate(accepting, serverName) ==
    /\ accepting \in DOMAIN workloadClusterListeners
    /\ workloadClusterListeners[accepting].listener # Nil
    /\ muxServer = "serving"
    /\ LET r == GetCertificateResult(workloadClusterListeners[accepting].listener,
                                     serverName, workloadClusterListeners,
                                     workloadClusterNameByHost)
       IN  last' = [ReturnedFor("getCertificate", accepting, serverName, r.err)
                       EXCEPT !.cert = r.cert, !.resolved = r.wclName]
    /\ UNCHANGED <<tasks, started, minPort, maxPort, servers, mux>>

GetCertificateCall ==
    \E accepting \in ClusterNames, serverName \in ServerNames :
        getCertificate(accepting, serverName)

(* ------------------------------------------------------------------ *)
(* Shutdown                                                            *)
(* ------------------------------------------------------------------ *)

\* What Shutdown(ctx) does to the two servers and what it returns.
\* debugErr and muxErr tell whether http.Server.Shutdown returns an error
\* for the debug server and for the mux server (the context expires before
\* the connections are idle, or a listener fails to close).
ShutdownResult(debugErr, muxErr, mx) ==
    IF debugErr
    THEN [debugServer |-> "shutdown", muxServer |-> mx,
          err |-> "failed to shutdown the debug server"]
    ELSE IF muxErr
    THEN [debugServer |-> "shutdown", muxServer |-> "shutdown",
          err |-> "failed to shutdown the mux server"]
    ELSE [debugServer |-> "shutdown", muxServer |-> "shutdown", err |-> ""]

Shutdown(debugErr, muxErr) ==
    LET r == ShutdownResult(debugErr, muxErr, muxServer)
    IN  /\ debugServer' = r.debugServer
        /\ muxServer' = r.muxServer
        /\ last' = Returned("Shutdown", "", <<>>, r.err, 0)
        /\ UNCHANGED <<tasks, started, minPort, maxPort, mux>>

ShutdownCall ==
    \E debugErr \in BOOLEAN, muxErr \in BOOLEAN : Shutdown(debugErr, muxErr)

(* ------------------------------------------------------------------ *)
(* Calls, connections and Shutdown as tasks that share m.lock          *)
(* ------------------------------------------------------------------ *)

\* InitWorkloadClusterListener takes the lock, never blocks while it holds
\* it and releases it when it returns.
InitListenerLockedCall ==
    /\ lock = ""
    /\ InitListenerCall

\* Shutdown with no connection to wait for: it takes the lock and releases
\* it when it returns.
ShutdownLockedCall ==
    /\ lock = ""
    /\ ShutdownCall

\* AddAPIServer by caller t, from m.lock.Lock() to the go statement: the
\* record is written and, when net.Listen gave a socket, the goroutine is
\* started.  The caller keeps the lock.
AddAPIServerLocked(t, wclName, podName, caCert, fail) ==
    /\ callers[t].at = "idle"
    /\ lock = ""
    /\ lock' = t
    /\ IF wclName \notin DOMAIN workloadClusterListeners
       THEN /\ callers' = [callers EXCEPT ![t] =
                   [at |-> "return", wclName |-> wclName, podName |-> podName,
                    err |-> "must be initialized before adding an APIserver"]]
            /\ UNCHANGED <<workloadClusterListeners, started>>
       ELSE LET r == AddAPIServerResult(workloadClusterListeners[wclName],
                         podName, caCert, fail,
                         AddressInUse(workloadClusterListeners, wclName))
            IN  /\ workloadClusterListeners' =
                       [workloadClusterListeners EXCEPT ![wclName] = r.wcl]
                /\ started' = Started(started, wclName, r.listened)
                /\ callers' = [callers EXCEPT ![t] =
                       [at |-> IF r.listened THEN "startCh" ELSE "return",
                        wclName |-> wclName, podName |-> podName,
                        err |-> r.err]]
    /\ UNCHANGED <<minPort, maxPort, servers, portIndex,
                   workloadClusterNameByHost, last, shutdown, conns>>

\* The goroutine sends on startCh and the caller receives.
AddAPIServerStarted(t) ==
    /\ callers[t].at = "startCh"
    /\ callers' = [callers EXCEPT ![t].at = "return"]
    /\ UNCHANGED <<minPort, maxPort, servers, mux, last, lock, shutdown,
                   conns, started>>

\* The caller returns, after the sleep and the read of startErr if it
\* started the goroutine; the deferred Unlock runs.
AddAPIServerReturn(t) ==
    /\ callers[t].at = "return"
    /\ lock = t
    /\ lock' = ""
    /\ callers' = [callers EXCEPT ![t] = Idle]
    /\ last' = ReturnedFor("AddAPIServer", callers[t].wclName,
                           callers[t].podName, callers[t].err)
    /\ UNCHANGED <<minPort, maxPort, servers, mux, shutdown, conns, started>>

\* Two callers of AddAPIServer for one cluster, any failure.
AddAPIServerLockedCall ==
    \E t \in Callers, wclName \in EtcdClusterNames, podName \in AllPodNames,
       caCert \in CaCerts, fail \in APIServerFailures :
        AddAPIServerLocked(t, wclName, podName, caCert, fail)

\* One caller, when every socket that is bound is also served.
AddAPIServerServedLockedCall ==
    \E wclName \in ClusterNames, podName \in PodNames, caCert \in CaCerts,
       fail \in APIServerFailures \ {"serve", "serveUnseen"} :
        AddAPIServerLocked("caller-1", wclName, podName, caCert, fail)

AddAPIServerStartedCall == \E t \in Callers : AddAPIServerStarted(t)

AddAPIServerReturnCall == \E t \in Callers : AddAPIServerReturn(t)

\* The accept loop of a cluster's socket, once ServeTLS runs, accepts a
\* connection.
Accept(c, wclName) ==
    /\ conns[c].at = "closed"
    /\ \A t \in Callers :
           ~(callers[t].at = "startCh" /\ callers[t].wclName = wclName)
    /\ wclName \in DOMAIN workloadClusterListeners
    /\ workloadClusterListeners[wclName].listener # Nil
    /\ muxServer = "serving"
    /\ conns' = [conns EXCEPT ![c] = [at |-> "new", wclName |-> wclName]]
    /\ UNCHANGED <<minPort, maxPort, servers, mux, last, lock, callers,
                   shutdown, started>>

\* The TLS handshake of a new connection calls getCertificate, which takes
\* the lock for reading; the connection is closed when it gets no
\* certificate.
Handshake(c, serverName) ==
    /\ conns[c].at = "new"
    /\ lock = ""
    /\ LET accepting == conns[c].wclName
           r == GetCertificateResult(
                    workloadClusterListeners[accepting].listener, serverName,
                    workloadClusterListeners, workloadClusterNameByHost)
       IN  /\ conns' = [conns EXCEPT ![c] =
                  IF r.err = "" /\ r.cert # Nil
                  THEN [at |-> "idle", wclName |-> accepting]
                  ELSE NoConn]
           /\ last' = [ReturnedFor("getCertificate", accepting, serverName, r.err)
                          EXCEPT !.cert = r.cert, !.resolved = r.wclName]
    /\ UNCHANGED <<minPort, maxPort, servers, mux, lock, callers, shutdown,
                   started>>

\* A request arrives on an idle connection and its handler starts.
Request(c) ==
    /\ conns[c].at = "idle"
    /\ conns' = [conns EXCEPT ![c].at = "resolving"]
    /\ UNCHANGED <<minPort, maxPort, servers, mux, last, lock, callers,
                   shutdown, started>>

\* resourceGroupResolver(host) for the address of the connection.
ResourceGroupResolver(hostPort, byHost) ==
    IF hostPort \in DOMAIN byHost
    THEN [wclName |-> byHost[hostPort], err |-> ""]
    ELSE [wclName |-> "", err |-> "failed to get workloadClusterListener for host"]

\* The handler calls resourceGroupResolver, which takes the lock for
\* reading.
Resolve(c) ==
    /\ conns[c].at = "resolving"
    /\ lock = ""
    /\ LET accepting == conns[c].wclName
           r == ResourceGroupResolver(
                    workloadClusterListeners[accepting].listener,
                    workloadClusterNameByHost)
       IN  last' = [ReturnedFor("resourceGroupResolver", accepting, "", r.err)
                       EXCEPT !.resolved = r.wclName]
    /\ conns' = [conns EXCEPT ![c].at = "handling"]
    /\ UNCHANGED <<minPort, maxPort, servers, mux, lock, callers, shutdown,
                   started>>

\* The handler writes its response; the connection is idle again.
Respond(c) ==
    /\ conns[c].at = "handling"
    /\ conns' = [conns EXCEPT ![c].at = "idle"]
    /\ UNCHANGED <<minPort, maxPort, servers, mux, last, lock, callers,
                   shutdown, started>>

AcceptCall == \E c \in Conns, wclName \in ClusterNames : Accept(c, wclName)

HandshakeCall == \E c \in Conns, serverName \in ServerNames : Handshake(c, serverName)

RequestCall == \E c \in Conns : Request(c)

ResolveCall == \E c \in Conns : Resolve(c)

RespondCall == \E c \in Conns : Respond(c)

\* Shutdown takes the lock.
ShutdownLock ==
    /\ shutdown = "idle"
    /\ lock = ""
    /\ lock' = "Shutdown"
    /\ shutdown' = "debugServer"
    /\ UNCHANGED <<minPort, maxPort, servers, mux, last, callers, conns,
                   started>>

\* m.debugServer.Shutdown(ctx) returns; on an error Shutdown returns it and
\* the deferred Unlock runs.
ShutdownDebugServer(debugErr) ==
    /\ shutdown = "debugServer"
    /\ debugServer' = "shutdown"
    /\ IF debugErr
       THEN /\ shutdown' = "returned"
            /\ lock' = ""
            /\ last' = Returned("Shutdown", "", <<>>,
                                ShutdownResult(TRUE, FALSE, muxServer).err, 0)
       ELSE /\ shutdown' = "muxServer"
            /\ UNCHANGED <<lock, last>>
    /\ UNCHANGED <<minPort, maxPort, muxServer, mux, callers, conns, started>>

ShutdownDebugServerCall == \E debugErr \in BOOLEAN : ShutdownDebugServer(debugErr)

\* m.muxServer.Shutdown(ctx) closes the listeners and the idle connections,
\* then waits for the others.
ShutdownMuxServer ==
    /\ shutdown = "muxServer"
    /\ muxServer' = "shutdown"
    /\ conns' = [c \in Conns |-> IF conns[c].at = "idle" THEN NoConn ELSE conns[c]]
    /\ shutdown' = "muxWait"
    /\ UNCHANGED <<minPort, maxPort, debugServer, mux, last, lock, callers,
                   started>>

\* The wait ends when every connection is closed, idle, or new for long
\* enough to count as idle: m.muxServer.Shutdown closes them and returns
\* nil, Shutdown returns nil and the deferred Unlock runs.
ShutdownMuxIdle ==
    /\ shutdown = "muxWait"
    /\ \A c \in Conns : conns[c].at \in {"closed", "idle", "new"}
    /\ conns' = [c \in Conns |-> NoConn]
    /\ shutdown' = "returned"
    /\ lock' = ""
    /\ last' = Returned("Shutdown", "", <<>>,
                        ShutdownResult(FALSE, FALSE, muxServer).err, 0)
    /\ UNCHANGED <<minPort, maxPort, servers, mux, callers, started>>

\* The wait ends when ctx is done: m.muxServer.Shutdown returns ctx.Err(),
\* Shutdown returns it wrapped and the deferred Unlock runs.
ShutdownDeadline ==
    /\ shutdown = "muxWait"
    /\ shutdown' = "returned"
    /\ lock' = ""
    /\ last' = Returned("Shutdown", "", <<>>,
                        ShutdownResult(FALSE, TRUE, muxServer).err, 0)
    /\ UNCHANGED <<minPort, maxPort, servers, mux, callers, conns, started>>

(* ------------------------------------------------------------------ *)
(* Specifications                                                      *)
(* ------------------------------------------------------------------ *)

Next ==
    \/ InitListenerCall
    \/ HotRestartCall
    \/ AddAPIServerCall
    \/ AddEtcdMemberCall

Spec == Init /\ [][Next]_vars

\* The mux when HotRestart is never called, with one more cluster name.
InitListenerCallMore ==
    \E wclName \in MoreClusterNames : InitWorkloadClusterListener(wclName)

NextNoRestart ==
    \/ InitListenerCallMore
    \/ AddAPIServerCall
    \/ AddEtcdMemberCall

SpecNoRestart == Init /\ [][NextNoRestart]_vars

\* One cluster with several API servers and certificate authorities.
AddAPIServerCertsCall ==
    \E wclName \in EtcdClusterNames, podName \in AllPodNames,
       caCert \in AllCaCerts, fail \in APIServerFailures :
        AddAPIServer(wclName, podName, caCert, fail)

AddEtcdMemberCertsCall ==
    \E wclName \in EtcdClusterNames, podName \in PodNames,
       caCert \in AllCaCerts, fail \in EtcdMemberFailures :
        AddEtcdMember(wclName, podName, caCert, fail)

NextCerts ==
    \/ InitListenerCall
    \/ AddAPIServerCertsCall
    \/ AddEtcdMemberCertsCall

SpecCerts == Init /\ [][NextCerts]_vars

\* The mux with the TLS handshakes of its clients, when every socket that
\* is bound is also served.
AddAPIServerServedCall ==
    \E wclName \in ClusterNames, podName \in PodNames, caCert \in CaCerts,
       fail \in APIServerFailures \ {"serve", "serveUnseen"} :
        AddAPIServer(wclName, podName, caCert, fail)

NextHandshake ==
    \/ InitListenerCall
    \/ HotRestartCall
    \/ AddAPIServerServedCall
    \/ AddEtcdMemberCall
    \/ GetCertificateCall

SpecHandshake == Init /\ [][NextHandshake]_vars

\* The same when HotRestart is never called.
NextServing ==
    \/ InitListenerCall
    \/ AddAPIServerServedCall
    \/ AddEtcdMemberCall
    \/ GetCertificateCall

SpecServing == Init /\ [][NextServing]_vars

\* The mux with the requests of its clients.
NextRouting ==
    \/ InitListenerCall
    \/ AddAPIServerServedCall
    \/ ServeHTTPCall

SpecRouting == Init /\ [][NextRouting]_vars

\* Concurrent callers of AddAPIServer, and Shutdown when no connection is
\* open.
NextCallers ==
    \/ InitListenerLockedCall
    \/ ShutdownLockedCall
    \/ AddAPIServerLockedCall
    \/ AddAPIServerStartedCall
    \/ AddAPIServerReturnCall

SpecCallers == Init /\ [][NextCallers]_vars

\* Shutdown while connections are open.
NextDrain ==
    \/ InitListenerLockedCall
    \/ AddAPIServerServedLockedCall
    \/ AddAPIServerStartedCall
    \/ AddAPIServerReturnCall
    \/ AcceptCall
    \/ HandshakeCall
    \/ RequestCall
    \/ ResolveCall
    \/ RespondCall
    \/ ShutdownLock
    \/ ShutdownDebugServerCall
    \/ ShutdownMuxServer
    \/ ShutdownMuxIdle
    \/ ShutdownDeadline

\* Every task that can take a step takes one, except that clients need not
\* connect or send requests, callers need not call, and ctx need not have a
\* deadline.
FairDrain ==
    /\ WF_vars(AddAPIServerStartedCall)
    /\ WF_vars(AddAPIServerReturnCall)
    /\ \A c \in Conns :
           /\ WF_vars(\E serverName \in ServerNames : Handshake(c, serverName))
           /\ WF_vars(Resolve(c))
           /\ WF_vars(Respond(c))
    /\ WF_vars(ShutdownDebugServerCall)
    /\ WF_vars(ShutdownMuxServer)
    /\ WF_vars(ShutdownMuxIdle)

SpecDrain == Init /\ [][NextDrain]_vars /\ FairDrain

\* The mux with Shutdown, when HotRestart is never called.
NextShutdown ==
    \/ InitListenerCall
    \/ AddAPIServerCall
    \/ ShutdownCall

SpecShutdown == Init /\ [][NextShutdown]_vars

(* ------------------------------------------------------------------ *)
(* Properties                                                          *)
(* ------------------------------------------------------------------ *)

IsInit(l) == l.op = "InitWorkloadClusterListener"
IsHotRestart(l) == l.op = "HotRestart"
IsAddAPIServer(l) == l.op = "AddAPIServer"

SetMax(S) == CHOOSE x \in S : \A y \in S : y <= x

\* The positions of the clusters of a list that have an endpoint.
WithEndpoint(clusters) == {i \in 1 .. Len(clusters) : clusters[i].host # ""}

\* C1: no two listeners of the registry hold the same port.
C1_PortsUnique ==
    \A a, b \in DOMAIN workloadClusterListeners :
        a # b => workloadClusterListeners[a].port # workloadClusterListeners[b].port

\* C2: when HotRestart is never called, the ports of the listeners are
\* pairwise distinct and within [minPort, maxPort], a listener is only
\* created by InitWorkloadClusterListener for its name, which returns its
\* port, and that port is greater than every port assigned before.
C2_InitPortsIncreasing ==
    [][LET before == workloadClusterListeners
           after == workloadClusterListeners'
       IN  /\ \A a, b \in DOMAIN after : a # b => after[a].port # after[b].port
           /\ \A a \in DOMAIN after :
                  minPort <= after[a].port /\ after[a].port <= maxPort
           /\ \A n \in (DOMAIN after) \ (DOMAIN before) :
                  /\ IsInit(last')
                  /\ last'.wclName = n
                  /\ last'.err = ""
                  /\ last'.port = after[n].port
                  /\ \A m \in DOMAIN before : before[m].port < after[n].port
      ]_vars

C2_Witness ==
    /\ IsInit(last)
    /\ last.err = ""
    /\ {"A", "B"} \subseteq DOMAIN workloadClusterListeners
    /\ last.wclName = "B"
    /\ last.port = workloadClusterListeners["A"].port + 1

\* C3: a HotRestart that returns an error leaves the listeners, the reverse
\* index and the port cursor as they were.
C3_HotRestartErrorNoMutation ==
    [][(IsHotRestart(last') /\ last'.err # "") => UNCHANGED mux]_vars

\* C4: HotRestart on an empty registry returns an error when two clusters of
\* the list on the configured host have the same port, and when a cluster of
\* the list is on another host.
C4_HotRestartRejects ==
    [][LET cs == last'.clusters
       IN  (/\ IsHotRestart(last')
            /\ DOMAIN workloadClusterListeners = {}
            /\ \/ \E i, j \in 1 .. Len(cs) :
                      /\ i # j
                      /\ cs[i].host = host
                      /\ cs[j].host = host
                      /\ cs[i].port = cs[j].port
               \/ \E i \in 1 .. Len(cs) : cs[i].host \notin {"", host})
           => last'.err # ""
      ]_vars

\* The clusters of a list that have an endpoint have pairwise distinct
\* resource groups.
DistinctResourceGroups(clusters) ==
    \A i, j \in WithEndpoint(clusters) :
        i # j => clusters[i].resourceGroup # clusters[j].resourceGroup

MaxListedPort(clusters) ==
    SetMax({clusters[i].port : i \in WithEndpoint(clusters)})

\* C5, as stated: after HotRestart returned nil on an empty registry, every
\* cluster of the list (the clusters that have an endpoint, of distinct
\* resource groups) has a listener without socket at its port and the
\* cursor is one past the greatest listed port; the
\* InitWorkloadClusterListener that follows returns the listed port for a
\* listed cluster and one past the greatest listed port for a new name.
C5_AsStated ==
    [][/\ LET cs == last'.clusters
              after == workloadClusterListeners'
          IN  (/\ IsHotRestart(last')
               /\ last'.err = ""
               /\ DOMAIN workloadClusterListeners = {}
               /\ WithEndpoint(cs) # {}
               /\ DistinctResourceGroups(cs))
              => /\ \A i \in WithEndpoint(cs) :
                        /\ cs[i].resourceGroup \in DOMAIN after
                        /\ after[cs[i].resourceGroup].port = cs[i].port
                        /\ after[cs[i].resourceGroup].listener = Nil
                 /\ portIndex' = MaxListedPort(cs) + 1
       /\ LET cs == last.clusters
          IN  (/\ IsHotRestart(last)
               /\ last.err = ""
               /\ WithEndpoint(cs) # {}
               /\ DistinctResourceGroups(cs)
               /\ IsInit(last'))
              => /\ \A i \in WithEndpoint(cs) :
                        last'.wclName = cs[i].resourceGroup
                            => (last'.err = "" /\ last'.port = cs[i].port)
                 /\ last'.wclName \notin DOMAIN workloadClusterListeners
                        => /\ last'.err = ""
                           /\ last'.port = MaxListedPort(cs) + 1
      ]_vars

\* C5, amended: after HotRestart returned nil on an empty registry the
\* listeners are those of the clusters of the list that have an endpoint,
\* each without socket and at the port of the last entry of its resource
\* group; the cursor is one past the greatest of these ports (minPort when
\* none reaches it) and above every port of the registry.  From then on no
\* listener is removed or changes its port, InitWorkloadClusterListener for
\* a name with a listener returns that port and leaves the mux alone, for a
\* new name it returns the cursor and advances it, or fails when the cursor
\* is past maxPort, and the cursor stays above every port of the registry.
C5_HotRestartReconstruction ==
    [][LET cs == last'.clusters
           before == workloadClusterListeners
           after == workloadClusterListeners'
           Above(listeners, index) ==
               \A n \in DOMAIN listeners : listeners[n].port < index
       IN  /\ (/\ IsHotRestart(last')
               /\ last'.err = ""
               /\ Len(cs) > 0
               /\ DOMAIN before = {})
              => /\ DOMAIN after = {cs[i].resourceGroup : i \in WithEndpoint(cs)}
                 /\ \A i \in WithEndpoint(cs) :
                        (\A j \in WithEndpoint(cs) :
                             j > i => cs[j].resourceGroup # cs[i].resourceGroup)
                        => /\ after[cs[i].resourceGroup].port = cs[i].port
                           /\ after[cs[i].resourceGroup].listener = Nil
                           /\ after[cs[i].resourceGroup].apiServers = {}
                 /\ portIndex' = SetMax({minPort} \cup
                                        {cs[i].port + 1 : i \in WithEndpoint(cs)})
                 /\ Above(after, portIndex')
           /\ \A n \in DOMAIN before :
                  n \in DOMAIN after /\ after[n].port = before[n].port
           /\ (IsInit(last') /\ last'.wclName \in DOMAIN before)
              => /\ last'.err = ""
                 /\ last'.port = before[last'.wclName].port
                 /\ UNCHANGED mux
           /\ (IsInit(last') /\ last'.wclName \notin DOMAIN before)
              => IF portIndex <= maxPort
                 THEN /\ last'.err = ""
                      /\ last'.port = portIndex
                      /\ portIndex' = portIndex + 1
                      /\ after[last'.wclName].port = portIndex
                 ELSE /\ last'.err = "no more free ports"
                      /\ UNCHANGED mux
           /\ (Above(before, portIndex) /\ DOMAIN before # {})
              => Above(after, portIndex')
      ]_vars

C5_Witness ==
    /\ IsHotRestart(last)
    /\ last.err = ""
    /\ Len(last.clusters) = 2
    /\ DOMAIN workloadClusterListeners = {"A", "B"}
    /\ workloadClusterListeners["A"].port = last.clusters[1].port
    /\ workloadClusterListeners["B"].port = last.clusters[2].port
    /\ workloadClusterListeners["A"].port < workloadClusterListeners["B"].port
    /\ portIndex = workloadClusterListeners["B"].port + 1

\* C6: HotRestart with a non-empty list on a registry that holds a listener
\* returns an error and leaves the listeners, the reverse index and the port
\* cursor as they were.
C6_HotRestartRejected ==
    [][(/\ IsHotRestart(last')
        /\ Len(last'.clusters) > 0
        /\ DOMAIN workloadClusterListeners # {})
       => (last'.err # "" /\ UNCHANGED mux)
      ]_vars

C6_Witness ==
    /\ IsHotRestart(last)
    /\ Len(last.clusters) > 0
    /\ last.err = "already initialized listeners"
    /\ DOMAIN workloadClusterListeners # {}

\* C7: a listener has a socket if and only if its set of API servers is not
\* empty.
C7_SocketIffAPIServers ==
    \A n \in DOMAIN workloadClusterListeners :
        workloadClusterListeners[n].listener # Nil
            <=> workloadClusterListeners[n].apiServers # {}

\* C8: a listener is created without socket; a socket is only ever set by
\* an AddAPIServer call for that cluster; once AddAPIServer has returned nil
\* the listener holds a socket bound to its host and port; a socket that is
\* set stays.
C8_SocketGating ==
    [][LET before == workloadClusterListeners
           after == workloadClusterListeners'
       IN  /\ \A n \in DOMAIN after :
                  (/\ after[n].listener # Nil
                   /\ (n \notin DOMAIN before \/ before[n].listener = Nil))
                  => (IsAddAPIServer(last') /\ last'.wclName = n)
           /\ (IsAddAPIServer(last') /\ last'.err = "")
              => /\ last'.wclName \in DOMAIN after
                 /\ after[last'.wclName].listener =
                        HostPort(after[last'.wclName])
           /\ \A n \in DOMAIN before :
                  before[n].listener # Nil
                  => (n \in DOMAIN after /\ after[n].listener = before[n].listener)
      ]_vars

C8_Witness ==
    /\ IsAddAPIServer(last)
    /\ last.err = ""
    /\ last.wclName \in DOMAIN workloadClusterListeners
    /\ workloadClusterListeners[last.wclName].listener # Nil
    /\ \E n \in DOMAIN workloadClusterListeners :
           /\ workloadClusterListeners[n].etcdMembers # {}
           /\ workloadClusterListeners[n].listener = Nil

\* C9: InitWorkloadClusterListener for a name that has a listener returns
\* that listener's port without error and leaves the listeners, the reverse
\* index and the port cursor as they were.
C9_InitIdempotent ==
    [][(IsInit(last') /\ last'.wclName \in DOMAIN workloadClusterListeners)
       => /\ last'.err = ""
          /\ last'.port = workloadClusterListeners[last'.wclName].port
          /\ UNCHANGED mux
      ]_vars

C9_Witness ==
    /\ IsInit(last)
    /\ last.err = ""
    /\ last.wclName \in DOMAIN workloadClusterListeners
    /\ workloadClusterListeners[last.wclName].listener # Nil
    /\ last.port = workloadClusterListeners[last.wclName].port

\* C10: once the cursor is past maxPort it stays past it, and
\* InitWorkloadClusterListener for a name without listener then fails with
\* the exhaustion error and changes nothing; with a range of one port and
\* the cursor at minPort, the call returns that port and exhausts the range.
C10_ExhaustionPermanent ==
    [][/\ portIndex > maxPort => portIndex' > maxPort
       /\ (/\ IsInit(last')
           /\ last'.wclName \notin DOMAIN workloadClusterListeners
           /\ portIndex > maxPort)
          => (last'.err = "no more free ports" /\ UNCHANGED mux)
       /\ (/\ IsInit(last')
           /\ last'.wclName \notin DOMAIN workloadClusterListeners
           /\ minPort = maxPort
           /\ portIndex = minPort)
          => /\ last'.err = ""
             /\ last'.port = minPort
             /\ portIndex' > maxPort
      ]_vars

C10_Witness ==
    /\ minPort = maxPort
    /\ IsInit(last)
    /\ last.err = "no more free ports"
    /\ last.wclName \notin DOMAIN workloadClusterListeners
    /\ \E n \in DOMAIN workloadClusterListeners :
           workloadClusterListeners[n].port = minPort
    /\ portIndex = maxPort + 1

IsShutdown(l) == l.op = "Shutdown"

\* C11: Shutdown calls the Shutdown of the debug server and of the mux
\* server, also when the first returns an error, and returns the first
\* error.
C11_ShutdownAttemptsBoth ==
    [][IsShutdown(last')
       => /\ debugServer' = "shutdown"
          /\ muxServer' = "shutdown"
          /\ last'.err \in {"", "failed to shutdown the debug server",
                            "failed to shutdown the mux server"}
      ]_vars

IsAddEtcdMember(l) == l.op = "AddEtcdMember"

\* C12: AddAPIServer and AddEtcdMember for a cluster name without listener
\* return the not-initialized error and leave the listeners (identities,
\* certificates, sockets), the reverse index and the port cursor as they
\* were.
C12_NotInitialized ==
    [][(/\ IsAddAPIServer(last') \/ IsAddEtcdMember(last')
        /\ last'.wclName \notin DOMAIN workloadClusterListeners)
       => /\ last'.err = "must be initialized before adding an APIserver"
          /\ UNCHANGED mux
      ]_vars

C12_Witness ==
    /\ IsAddEtcdMember(last)
    /\ last.err = "must be initialized before adding an APIserver"
    /\ last.wclName \notin DOMAIN workloadClusterListeners
    /\ workloadClusterListeners # EmptyMap

\* C13: AddAPIServer for a pod that is already an API server of a cluster
\* whose certificates are issued and whose socket is bound returns nil and
\* leaves the set of API servers, the serving certificate, the admin
\* certificate and the socket as they were; AddEtcdMember for a pod that is
\* already a member with a certificate returns nil and leaves the set of
\* members and the members' certificates as they were.
C13_MembershipIdempotent ==
    [][LET before == workloadClusterListeners
           after == workloadClusterListeners'
           c == last'.wclName
           p == last'.podName
       IN  /\ (/\ IsAddAPIServer(last')
               /\ c \in DOMAIN before
               /\ p \in before[c].apiServers
               /\ before[c].apiServerServingCertificate # Nil
               /\ before[c].adminCertificate # Nil
               /\ before[c].listener # Nil)
              => /\ last'.err = ""
                 /\ after[c].apiServers = before[c].apiServers
                 /\ after[c].apiServerServingCertificate =
                        before[c].apiServerServingCertificate
                 /\ after[c].adminCertificate = before[c].adminCertificate
                 /\ after[c].listener = before[c].listener
           /\ (/\ IsAddEtcdMember(last')
               /\ c \in DOMAIN before
               /\ p \in before[c].etcdMembers
               /\ before[c].etcdServingCertificates[p] # Nil)
              => /\ last'.err = ""
                 /\ after[c].etcdMembers = before[c].etcdMembers
                 /\ after[c].etcdServingCertificates =
                        before[c].etcdServingCertificates
      ]_vars

\* Both pods are API servers of A, whose serving certificate was issued by
\* one authority while the last call passed the other; pod-0 is a member.
C13_Witness ==
    /\ IsAddAPIServer(last)
    /\ last.err = ""
    /\ "A" \in DOMAIN workloadClusterListeners
    /\ workloadClusterListeners["A"].apiServers = AllPodNames
    /\ workloadClusterListeners["A"].listener # Nil
    /\ workloadClusterListeners["A"].apiServerServingCertificate[3] #
           workloadClusterListeners["A"].apiServerCaCertificate
    /\ workloadClusterListeners["A"].etcdServingCertificates["pod-0"] # Nil

\* C17: the CA certificate, the API server serving certificate, the admin
\* certificate and the etcd members' serving certificates of a listener
\* never change once they are set.
C17_CertificatesWriteOnce ==
    [][\A n \in DOMAIN workloadClusterListeners :
           LET before == workloadClusterListeners[n]
               after == workloadClusterListeners'[n]
           IN  /\ n \in DOMAIN workloadClusterListeners'
               /\ before.apiServerCaCertificate # NilCa
                  => after.apiServerCaCertificate = before.apiServerCaCertificate
               /\ before.apiServerServingCertificate # Nil
                  => after.apiServerServingCertificate =
                         before.apiServerServingCertificate
               /\ before.adminCertificate # Nil
                  => after.adminCertificate = before.adminCertificate
               /\ \A p \in AllPodNames :
                      before.etcdServingCertificates[p] # Nil
                      => after.etcdServingCertificates[p] =
                             before.etcdServingCertificates[p]
      ]_vars

IsGetCertificate(call) == call.op = "getCertificate"

\* C14: for a handshake on a cluster's socket, getCertificate resolves
\* that cluster and returns, without error, the etcd serving certificate of
\* the member when the server name is an etcd member of that cluster and
\* the API server serving certificate of that cluster otherwise.
C14_CertificateRouting ==
    [][IsGetCertificate(last')
       => LET wcl == workloadClusterListeners[last'.wclName]
          IN  /\ last'.err = ""
              /\ last'.resolved = last'.wclName
              /\ last'.cert = IF last'.podName \in wcl.etcdMembers
                              THEN wcl.etcdServingCertificates[last'.podName]
                              ELSE wcl.apiServerServingCertificate
      ]_vars

\* C18: getCertificate returns a certificate or an error, never neither
\* and never both.
C18_CertificateOrError ==
    [][IsGetCertificate(last') => ((last'.cert # Nil) # (last'.err # ""))]_vars

IsServeHTTP(call) == call.op = "ServeHTTP"

\* The content type is "application/grpc" followed by anything.
BeginsWithGrpc(contentType) ==
    \E n \in 0..Len(contentType) :
        [i \in 1..n |-> contentType[i]] = GrpcContentType

\* C15: a request goes to the etcd handler when it is HTTP/2 and its
\* content type begins with "application/grpc", to the API server handler
\* otherwise, and to no other handler.
C15_ProtocolRouting ==
    [][IsServeHTTP(last')
       => LET r == last'.request
          IN  /\ Len(last'.handlers) = 1
              /\ last'.handlers[1] = "etcdHandler"
                 <=> (r.protoMajor = 2 /\ BeginsWithGrpc(r.contentType))
              /\ last'.handlers[1] = "apiHandler"
                 <=> ~(r.protoMajor = 2 /\ BeginsWithGrpc(r.contentType))
      ]_vars

\* An HTTP/2 request with content type application/grpc+proto went to the
\* etcd handler.
C15_Witness ==
    /\ IsServeHTTP(last)
    /\ last.request.protoMajor = 2
    /\ Len(last.request.contentType) > Len(GrpcContentType)
    /\ last.handlers = <<"etcdHandler">>

\* C16: when AddAPIServer returns the error of net.Listen or of ServeTLS,
\* the record of the cluster has no socket stored.
C16_FailedStartLeavesReserved ==
    [][(/\ IsAddAPIServer(last')
        /\ last'.err \in {"failed to start WorkloadClusterListener", "startErr"})
       => workloadClusterListeners'[last'.wclName].listener = Nil
      ]_vars

\* C19: the reverse index has as many entries as the registry has records,
\* the address of every record maps to the record's name, and every entry
\* names a record whose address is the entry's key.
C19_IndexMatchesRegistry ==
    /\ Cardinality(DOMAIN workloadClusterNameByHost) =
           Cardinality(DOMAIN workloadClusterListeners)
    /\ \A n \in DOMAIN workloadClusterListeners :
           /\ HostPort(workloadClusterListeners[n]) \in
                  DOMAIN workloadClusterNameByHost
           /\ workloadClusterNameByHost[HostPort(workloadClusterListeners[n])] = n
    /\ \A k \in DOMAIN workloadClusterNameByHost :
           /\ workloadClusterNameByHost[k] \in DOMAIN workloadClusterListeners
           /\ HostPort(workloadClusterListeners[workloadClusterNameByHost[k]]) = k

\* Every record of before is in after, with its port and, if it has one,
\* its socket.
LifecycleMonotonic(before, after) ==
    \A n \in DOMAIN before :
        /\ n \in DOMAIN after
        /\ after[n].port = before[n].port
        /\ before[n].listener # Nil => after[n].listener = before[n].listener

\* The registry when the loop of HotRestart has gone through the first k
\* items of clusters.
RegistryAfterItems(clusters, k) ==
    hotRestartItems(SubSeq(clusters, 1, k), 1,
        [listeners |-> workloadClusterListeners,
         byHost |-> workloadClusterNameByHost,
         ports |-> {}, maxPort |-> minPort - 1, err |-> ""]).listeners

\* C20: no call, and no iteration of the loop of HotRestart, removes a
\* record, changes the port of a record or clears the socket of a record.
C20_LifecycleMonotonic ==
    [][/\ LifecycleMonotonic(workloadClusterListeners, workloadClusterListeners')
       /\ (IsHotRestart(last') /\ DOMAIN workloadClusterListeners = {})
          => \A k \in 1..Len(last'.clusters) :
                 LifecycleMonotonic(RegistryAfterItems(last'.clusters, k - 1),
                                    RegistryAfterItems(last'.clusters, k))
      ]_vars

\* C21: a Shutdown that waits for the connections of the mux server
\* returns, whether or not its context has a deadline.
C21_ShutdownCompletes ==
    (shutdown = "muxWait") ~> (shutdown = "returned")

\* The wait of AddAPIServer for the goroutine ends and the call returns.
C21_AddAPIServerReturns ==
    \A t \in Callers : (callers[t].at # "idle") ~> (callers[t].at = "idle")

\* C22: net.Listen succeeds, and the goroutine that calls ServeTLS is
\* started, at most once for each cluster.
C22_StartedAtMostOnce ==
    \A n \in DOMAIN started : started[n].listen <= 1 /\ started[n].serveTLS <= 1

\* Both callers have returned from AddAPIServer for A with different pods,
\* and the socket of A was bound.
C22_Witness ==
    /\ \A t \in Callers : callers[t] = Idle
    /\ "A" \in DOMAIN workloadClusterListeners
    /\ workloadClusterListeners["A"].apiServers = AllPodNames
    /\ started["A"].listen = 1
    /\ started["A"].serveTLS = 1
====
